---- MODULE Spec2Model ----
(***************************************************************************)
(* Model of pr_agent/algo/logger_hub_client.py: the Logger Hub client.     *)
(*                                                                         *)
(*   send_to_logger_hub   (lines 17-60)  the delivery coroutine            *)
(*   log_ai_request_sync  (lines 63-86)  the dispatch wrapper              *)
(*   build_ai_log_data    (lines 89-148) the payload builder               *)
(*                                                                         *)
(* Spec models wrapper calls and the delivery coroutines they create.  An  *)
(* action is one stretch of code between two suspension points: asyncio    *)
(* runs such a stretch without interleaving, and the module shares no      *)
(* mutable state between threads.  LiveSpec adds the fairness of the event *)
(* loop.  BuildSpec applies the payload builder to every combination of    *)
(* arguments.                                                              *)
(***************************************************************************)
EXTENDS Integers, Sequences, FiniteSets, TLC

\* Number of wrapper calls in one behaviour.
MaxCalls == 2

\* Number of wrapper calls in one behaviour of LiveSpec.
MaxLiveCalls == 1

\* Largest value the wall clock returns to build_ai_log_data.
MaxTime == 1

\* line 14: LOGGER_HUB_TIMEOUT = 5  # seconds
LOGGER_HUB_TIMEOUT == 5

Calls == 1..MaxCalls

\* A wrapper call creates at most two coroutine objects: <<w, 1>> in the try
\* block (line 78 or line 81) and <<w, 2>> in the RuntimeError handler (line 84).
Deliveries == Calls \X {1, 2}

\* Exceptions as the wrapper's handlers tell them apart (lines 82 and 85).
ExcKinds == {"RuntimeError", "OtherError"}

\* Values of LOGGER_HUB.ENDPOINT and LOGGER_HUB.API_KEY; "" is the default
\* that .get() returns for a missing key (lines 31-32).
EndpointValues == {"", "http://hub"}
ApiKeyValues == {"", "key"}

\* HTTP statuses the collector answers with.
Statuses == {200, 500}

\* How the remote end treats a request: something comes back (a response or a
\* transport failure), or nothing ever does.
Servers == {"up", "silent"}

VARIABLES
    endpoint,      \* configured LOGGER_HUB.ENDPOINT
    api_key,       \* configured LOGGER_HUB.API_KEY
    wrap,          \* wrap[w]: one call of log_ai_request_sync
    deliv,         \* deliv[d]: one coroutine of send_to_logger_hub
    openSessions,  \* aiohttp sessions that are open
    bpc,           \* payload builder: "off", "args" or "built"
    args,          \* arguments of build_ai_log_data
    data           \* the record build_ai_log_data returned

vars == <<endpoint, api_key, wrap, deliv, openSessions, bpc, args, data>>

buildVars == <<bpc, args, data>>
clientVars == <<endpoint, api_key, wrap, deliv, openSessions>>

-----------------------------------------------------------------------------
(* send_to_logger_hub                                                      *)

\* pc "unstarted": no code of the coroutine has run (it was not created, or
\* it was created and never awaited).
NoDelivery ==
    [pc |-> "unstarted", session |-> 0, server |-> "?", timer |-> 0, status |-> 0,
     requests |-> 0, pending |-> "none", result |-> "none", exc |-> "none"]

\* A coroutine that was started and has not finished: at its first line, suspended
\* on the response (line 40), or suspended in the session's __aexit__ (line 39).
RunningPcs == {"L31", "await", "exit"}

Terminated(d) == deliv[d].pc \in {"returned", "raised"}

\* A task created by create_task runs on the caller's loop, so it cannot run
\* before the wrapper that created it has returned to that loop (line 78).
\* A coroutine run by run_until_complete or asyncio.run runs while the wrapper
\* is blocked in that call (lines 81, 84).
Runnable(d) ==
    /\ deliv[d].pc \in RunningPcs
    /\ (d[2] = 1 /\ wrap[d[1]].scheduled) => wrap[d[1]].pc = "returned"

\* Variant: skips only when both values are empty.
ConfigMissingBoth(e, k) == e = "" /\ k = ""
\* line 34: if not endpoint or not api_key
ConfigMissing(e, k) == e = "" \/ k = ""

\* Variant: any response counts as success.
StatusOkAlways(s) == TRUE
\* line 49: if response.status == 200
StatusOk(s) == s = 200

\* Variant: the request carries no timeout.
ClientTimeoutOmitted(total) == 0
\* line 47: timeout=aiohttp.ClientTimeout(total=LOGGER_HUB_TIMEOUT): the
\* seconds after which the request is abandoned; 0 stands for a request
\* without a timeout.
ClientTimeout(total) == total

\* lines 55-60: both handlers return False.
HandlerResult(pending) == "False"

\* Variant: the session is closed only on a normal return.
SessionsLeakOnError(open, s, pending) ==
    IF pending \in {"TimeoutError", "Exception"} THEN open ELSE open \ {s}
\* lines 39-54: leaving `async with aiohttp.ClientSession() as session`
\* closes the session, whatever leaves the block (a return or an exception).
SessionsAfterExit(open, s, pending) == open \ {s}

\* line 39: aiohttp.ClientSession() builds a new session object on every call;
\* it is named by the smallest identity no open session has.
NewSession(open) == CHOOSE n \in 1..(Cardinality(open) + 1) : n \notin open

\* lines 31-32: get_settings().get(...) is outside the try block, so whatever
\* it raises leaves the coroutine.
D_ConfigFault(d) ==
    /\ Runnable(d) /\ deliv[d].pc = "L31"
    /\ \E k \in ExcKinds : deliv' = [deliv EXCEPT ![d].pc = "raised", ![d].exc = k]
    /\ UNCHANGED <<endpoint, api_key, wrap, openSessions, buildVars>>

\* lines 31-36: the configuration is read and is incomplete.
D_NotConfigured(d) ==
    /\ Runnable(d) /\ deliv[d].pc = "L31"
    /\ ConfigMissing(endpoint, api_key)
    /\ deliv' = [deliv EXCEPT ![d].pc = "returned", ![d].result = "False"]
    /\ UNCHANGED <<endpoint, api_key, wrap, openSessions, buildVars>>

\* lines 31-39, 58-60: the configuration is complete and opening the session
\* raises inside the try block; the handler at line 58 returns False.
D_SessionFault(d) ==
    /\ Runnable(d) /\ deliv[d].pc = "L31"
    /\ ~ConfigMissing(endpoint, api_key)
    /\ deliv' = [deliv EXCEPT ![d].pc = "returned", ![d].result = HandlerResult("Exception")]
    /\ UNCHANGED <<endpoint, api_key, wrap, openSessions, buildVars>>

\* lines 31-47: the configuration is complete, the session is opened, the POST
\* is sent with its timeout and the coroutine suspends on the response.
D_Post(d) ==
    /\ Runnable(d) /\ deliv[d].pc = "L31"
    /\ ~ConfigMissing(endpoint, api_key)
    /\ openSessions' = openSessions \cup {NewSession(openSessions)}
    /\ \E s \in Servers :
         deliv' = [deliv EXCEPT ![d].session = NewSession(openSessions),
                                ![d].requests = @ + 1, ![d].server = s,
                                ![d].timer = ClientTimeout(LOGGER_HUB_TIMEOUT), ![d].pc = "await"]
    /\ UNCHANGED <<endpoint, api_key, wrap, buildVars>>

\* lines 48-54: the response arrives; the return statement starts leaving the
\* two `async with` blocks.
D_Response(d) ==
    /\ Runnable(d) /\ deliv[d].pc = "await"
    /\ deliv[d].server = "up"
    /\ \E s \in Statuses :
         deliv' = [deliv EXCEPT ![d].status = s,
                                ![d].pending = IF StatusOk(s) THEN "True" ELSE "False",
                                ![d].pc = "exit"]
    /\ UNCHANGED <<endpoint, api_key, wrap, openSessions, buildVars>>

\* line 47: the total timeout expires; asyncio.TimeoutError is raised at the
\* await and the pending request is dropped.
D_Timeout(d) ==
    /\ Runnable(d) /\ deliv[d].pc = "await"
    /\ deliv[d].timer > 0
    /\ deliv' = [deliv EXCEPT ![d].pending = "TimeoutError", ![d].pc = "exit"]
    /\ UNCHANGED <<endpoint, api_key, wrap, openSessions, buildVars>>

\* lines 40-48: the transport fails (aiohttp.ClientError and the like).
D_TransportError(d) ==
    /\ Runnable(d) /\ deliv[d].pc = "await"
    /\ deliv[d].server = "up"
    /\ deliv' = [deliv EXCEPT ![d].pending = "Exception", ![d].pc = "exit"]
    /\ UNCHANGED <<endpoint, api_key, wrap, openSessions, buildVars>>

\* lines 39-60: the session's __aexit__ closes it; then the pending return
\* completes, or the pending exception reaches its handler (lines 55-60).
D_ExitSession(d) ==
    /\ Runnable(d) /\ deliv[d].pc = "exit"
    /\ openSessions' = SessionsAfterExit(openSessions, deliv[d].session, deliv[d].pending)
    /\ deliv' = [deliv EXCEPT
                   ![d].pc = "returned",
                   ![d].result = IF deliv[d].pending \in {"True", "False"}
                                   THEN deliv[d].pending
                                   ELSE HandlerResult(deliv[d].pending),
                   ![d].session = 0, ![d].server = "?", ![d].timer = 0,
                   ![d].pending = "none"]
    /\ UNCHANGED <<endpoint, api_key, wrap, buildVars>>

send_to_logger_hub(d) ==
    \/ D_ConfigFault(d)
    \/ D_NotConfigured(d)
    \/ D_SessionFault(d)
    \/ D_Post(d)
    \/ D_Response(d)
    \/ D_Timeout(d)
    \/ D_TransportError(d)
    \/ D_ExitSession(d)

-----------------------------------------------------------------------------
(* log_ai_request_sync                                                     *)

\* Calls are numbered in the order in which they are made.
Callable(w) ==
    /\ wrap[w].pc = "idle"
    /\ IF w = 1 THEN TRUE ELSE wrap[w - 1].pc # "idle"

\* ctx is what the calling context looks like to asyncio: a loop is running
\* in the calling thread ("running"), or none is ("sync"): the thread then
\* has a loop that is not running, a loop that was closed, a loop that
\* another thread is running, or no loop at all.
NoCall ==
    [pc |-> "idle", ctx |-> "?", scheduled |-> FALSE, inline |-> FALSE,
     fallback |-> FALSE, swallowed |-> FALSE, exc |-> "none"]

\* Variant: the task is awaited before returning.
W_CreateTaskAndWait(w) ==
    /\ Callable(w)
    /\ deliv' = [deliv EXCEPT ![<<w, 1>>].pc = "L31"]
    /\ wrap' = [wrap EXCEPT ![w].pc = "wait81", ![w].ctx = "running", ![w].inline = TRUE]
    /\ UNCHANGED <<endpoint, api_key, openSessions, buildVars>>

\* lines 75-78, called where get_event_loop() returns a loop that is running.
\* The coroutine object is created first.  With the loop running in this
\* thread, create_task schedules it and the function returns; with the loop
\* run by another thread, create_task raises RuntimeError and the coroutine
\* is never started.
W_CreateTask(w) ==
    /\ Callable(w)
    /\ \/ /\ deliv' = [deliv EXCEPT ![<<w, 1>>].pc = "L31"]
          /\ wrap' = [wrap EXCEPT ![w].pc = "returned", ![w].ctx = "running",
                                  ![w].scheduled = TRUE]
       \/ /\ wrap' = [wrap EXCEPT ![w].pc = "L84", ![w].ctx = "sync"]
          /\ UNCHANGED deliv
    /\ UNCHANGED <<endpoint, api_key, openSessions, buildVars>>

\* Variant: the coroutine is started and not waited for.
W_RunNoWait(w) ==
    /\ Callable(w)
    /\ deliv' = [deliv EXCEPT ![<<w, 1>>].pc = "L31"]
    /\ wrap' = [wrap EXCEPT ![w].pc = "returned", ![w].ctx = "sync", ![w].inline = TRUE]
    /\ UNCHANGED <<endpoint, api_key, openSessions, buildVars>>

\* lines 75-81, called where get_event_loop() returns a loop that is not
\* running.  A closed loop raises RuntimeError before the coroutine is
\* started; otherwise the coroutine runs while the wrapper is blocked in
\* run_until_complete.
W_RunUntilComplete(w) ==
    /\ Callable(w)
    /\ \/ /\ deliv' = [deliv EXCEPT ![<<w, 1>>].pc = "L31"]
          /\ wrap' = [wrap EXCEPT ![w].pc = "wait81", ![w].ctx = "sync", ![w].inline = TRUE]
       \/ /\ wrap' = [wrap EXCEPT ![w].pc = "L84", ![w].ctx = "sync"]
          /\ UNCHANGED deliv
    /\ UNCHANGED <<endpoint, api_key, openSessions, buildVars>>

\* lines 75, 82: called where the thread has no loop; get_event_loop() raises
\* RuntimeError and no coroutine was created.
W_NoLoop(w) ==
    /\ Callable(w)
    /\ wrap' = [wrap EXCEPT ![w].pc = "L84", ![w].ctx = "sync"]
    /\ UNCHANGED <<endpoint, api_key, deliv, openSessions, buildVars>>

\* Variant: the fallback runs whatever the first run did.
W_RunDoneRetry(w) ==
    /\ wrap[w].pc = "wait81"
    /\ Terminated(<<w, 1>>)
    /\ wrap' = [wrap EXCEPT ![w].pc = "L84"]
    /\ UNCHANGED <<endpoint, api_key, deliv, openSessions, buildVars>>

\* lines 81-86: run_until_complete returns the coroutine's result and the
\* function returns, or it raises what the coroutine raised: a RuntimeError
\* goes to the handler at line 82, anything else is logged at line 86 and the
\* function returns.
W_RunDone(w) ==
    /\ wrap[w].pc = "wait81"
    /\ Terminated(<<w, 1>>)
    /\ wrap' = [wrap EXCEPT
                  ![w].pc = IF deliv[<<w, 1>>].exc = "RuntimeError" THEN "L84" ELSE "returned",
                  ![w].swallowed = (deliv[<<w, 1>>].exc = "OtherError")]
    /\ UNCHANGED <<endpoint, api_key, deliv, openSessions, buildVars>>

\* line 84: asyncio.run(send_to_logger_hub(collection, data)), inside the
\* RuntimeError handler.  The coroutine object is created first; then the new
\* loop is created, which can fail; then the coroutine runs to completion.
\* Nothing encloses this statement, so what it raises leaves the function.
W_Fallback(w) ==
    /\ wrap[w].pc = "L84"
    /\ \/ /\ deliv' = [deliv EXCEPT ![<<w, 2>>].pc = "L31"]
          /\ wrap' = [wrap EXCEPT ![w].pc = "wait84", ![w].fallback = TRUE,
                                  ![w].inline = TRUE]
       \/ /\ UNCHANGED deliv
          /\ wrap' = [wrap EXCEPT ![w].pc = "raised", ![w].fallback = TRUE,
                                  ![w].exc = "OtherError"]
    /\ UNCHANGED <<endpoint, api_key, openSessions, buildVars>>

\* line 84: asyncio.run returns and the function returns, or asyncio.run
\* raises what the coroutine raised and so does the function.
W_FallbackDone(w) ==
    /\ wrap[w].pc = "wait84"
    /\ Terminated(<<w, 2>>)
    /\ wrap' = [wrap EXCEPT
                  ![w].pc = IF deliv[<<w, 2>>].pc = "returned" THEN "returned" ELSE "raised",
                  ![w].exc = deliv[<<w, 2>>].exc]
    /\ UNCHANGED <<endpoint, api_key, deliv, openSessions, buildVars>>

log_ai_request_sync(w) ==
    \/ W_CreateTask(w)
    \/ W_RunUntilComplete(w)
    \/ W_NoLoop(w)
    \/ W_RunDone(w)
    \/ W_Fallback(w)
    \/ W_FallbackDone(w)

-----------------------------------------------------------------------------
(* Specifications of the client                                            *)

BuildOff ==
    /\ bpc = "off"
    /\ args = <<>>
    /\ data = <<>>

Init ==
    /\ endpoint \in EndpointValues
    /\ api_key \in ApiKeyValues
    /\ wrap = [w \in Calls |-> NoCall]
    /\ deliv = [d \in Deliveries |-> NoDelivery]
    /\ openSessions = {}
    /\ BuildOff

Next ==
    \/ \E w \in Calls : log_ai_request_sync(w)
    \/ \E d \in Deliveries : send_to_logger_hub(d)

Spec == Init /\ [][Next]_vars

\* The calls that LiveSpec follows to their end.
LiveCalls == 1..MaxLiveCalls

LiveNext ==
    \/ \E w \in LiveCalls : log_ai_request_sync(w)
    \/ \E d \in LiveCalls \X {1, 2} : send_to_logger_hub(d)

\* A step of a coroutine that was started or of a wrapper that was entered.
Progress ==
    \/ \E d \in LiveCalls \X {1, 2} : send_to_logger_hub(d)
    \/ \E w \in LiveCalls : wrap[w].pc # "idle" /\ log_ai_request_sync(w)

\* The event loop runs a ready coroutine and fires a due timer, and a thread
\* blocked in run_until_complete or asyncio.run resumes when its coroutine is
\* done: while such a step is possible, one is taken.  Nothing is assumed
\* about whether further calls are made.
LiveSpec == Init /\ [][LiveNext]_vars /\ WF_vars(Progress)

-----------------------------------------------------------------------------
(* build_ai_log_data                                                       *)

\* Python's None.
None == "None"

\* lines 123-129: the keys every record has.
RequiredKeys == {"model", "system_prompt", "user_prompt", "status", "timestamp"}

\* lines 93-101: the optional parameters, all defaulting to None.
OptionalKeys ==
    {"response", "finish_reason", "usage", "error", "latency_ms", "pr_url",
     "command", "extra"}

\* An optional argument is None, a supplied value that Python counts as false
\* ("", 0, {}), or a supplied value that it counts as true.
OptionalValues == {None, "", "x"}

ArgSets ==
    [model : {"gpt-4"}, system_prompt : {"sys"}, user_prompt : {"usr"},
     status : {"success", "error"}, response : OptionalValues,
     finish_reason : OptionalValues, usage : OptionalValues, error : OptionalValues,
     latency_ms : OptionalValues, pr_url : OptionalValues, command : OptionalValues,
     extra : OptionalValues]

\* Variant: tests the truth of the argument instead of `is not None`.
PutIfTruthy(d, k, v) == IF v # None /\ v # "" THEN (k :> v) @@ d ELSE d
\* lines 131-146: if <argument> is not None: data[<key>] = <argument>
PutIfSupplied(d, k, v) == IF v # None THEN (k :> v) @@ d ELSE d

\* lines 123-148
build_ai_log_data(a, now) ==
    LET d0 == [model |-> a.model, system_prompt |-> a.system_prompt,
               user_prompt |-> a.user_prompt, status |-> a.status, timestamp |-> now]
        d1 == PutIfSupplied(d0, "response", a.response)
        d2 == PutIfSupplied(d1, "finish_reason", a.finish_reason)
        d3 == PutIfSupplied(d2, "usage", a.usage)
        d4 == PutIfSupplied(d3, "error", a.error)
        d5 == PutIfSupplied(d4, "latency_ms", a.latency_ms)
        d6 == PutIfSupplied(d5, "pr_url", a.pr_url)
        d7 == PutIfSupplied(d6, "command", a.command)
        d8 == PutIfSupplied(d7, "extra", a.extra)
    IN  d8

\* A caller builds one record; time.time() (line 128) returns any clock value.
Build ==
    /\ bpc = "args"
    /\ \E now \in 0..MaxTime : data' = build_ai_log_data(args, now)
    /\ bpc' = "built"
    /\ UNCHANGED <<args, clientVars>>

BuildInit ==
    /\ bpc = "args"
    /\ args \in ArgSets
    /\ data = <<>>
    /\ endpoint = ""
    /\ api_key = ""
    /\ wrap = [w \in Calls |-> NoCall]
    /\ deliv = [d \in Deliveries |-> NoDelivery]
    /\ openSessions = {}

BuildNext == Build

BuildSpec == BuildInit /\ [][BuildNext]_vars

-----------------------------------------------------------------------------
(* Properties                                                              *)

Requests(w) == deliv[<<w, 1>>].requests + deliv[<<w, 2>>].requests

\* C1: no call of log_ai_request_sync ever ends by raising to its caller,
\* whichever dispatch branch it took and even when the asyncio.run fallback
\* fails.
WrapperNeverRaises == \A w \in Calls : wrap[w].pc # "raised"

\* C2: no call of send_to_logger_hub ever ends by raising; every outcome,
\* a failure to read the configuration included, ends in a returned boolean.
DeliveryNeverRaises == \A d \in Deliveries : deliv[d].pc # "raised"

\* C3: when the endpoint or the API key is empty, no delivery opens a session
\* or issues a request, and a delivery that has read the configuration
\* returns False.
NotConfiguredNoNetwork ==
    (endpoint = "" \/ api_key = "") =>
        /\ openSessions = {}
        /\ \A d \in Deliveries :
             /\ deliv[d].requests = 0
             /\ deliv[d].session = 0
             /\ deliv[d].pc \in {"unstarted", "L31", "returned", "raised"}
             /\ deliv[d].pc = "returned" => deliv[d].result = "False"

NotConfiguredReturnedFalse ==
    /\ endpoint = "" /\ api_key # ""
    /\ \E d \in Deliveries : deliv[d].pc = "returned" /\ deliv[d].result = "False"

\* C4: with endpoint and API key both configured, a delivery returns True
\* exactly when it received a response with status 200; after any other
\* status, a timeout or a transport error (no response: status 0) it returns
\* False.
TrueIffStatus200 ==
    (endpoint # "" /\ api_key # "") =>
        \A d \in Deliveries :
            deliv[d].pc = "returned" =>
                /\ deliv[d].result \in {"True", "False"}
                /\ deliv[d].result = "True" <=> deliv[d].status = 200

ReturnedTrueAndFalse ==
    \E d1, d2 \in Deliveries :
        /\ deliv[d1].pc = "returned" /\ deliv[d1].result = "True"
        /\ deliv[d2].pc = "returned" /\ deliv[d2].result = "False"
        /\ deliv[d2].status = 500

\* C5: called where an event loop is running, log_ai_request_sync schedules
\* the delivery as a task and returns while the delivery has not yet run: it
\* never waits for the delivery on that path.
ReturnsBeforeDelivery ==
    /\ [](\A w \in Calls :
            wrap[w].ctx = "running" =>
                /\ wrap[w].pc = "returned"
                /\ wrap[w].scheduled /\ ~wrap[w].inline /\ ~wrap[w].fallback)
    /\ [][\A w \in Calls :
            (wrap[w].pc # "returned" /\ wrap'[w].pc = "returned"
                /\ wrap'[w].ctx = "running") =>
                /\ deliv'[<<w, 1>>].pc = "L31"
                /\ deliv'[<<w, 1>>].requests = 0]_vars

RequestInFlightAfterReturn ==
    \E w \in Calls :
        /\ wrap[w].ctx = "running" /\ wrap[w].pc = "returned"
        /\ deliv[<<w, 1>>].pc = "await"

KeysAsSupplied ==
    bpc = "built" =>
        /\ DOMAIN data = RequiredKeys \cup {k \in OptionalKeys : args[k] # None}
        /\ \A k \in DOMAIN data \ {"timestamp"} : data[k] = args[k]
        /\ data["timestamp"] \in 0..MaxTime

OnlyResponseSupplied ==
    /\ bpc = "built"
    /\ args.response = "x" /\ args.status = "success"
    /\ \A k \in OptionalKeys \ {"response"} : args[k] = None
    /\ DOMAIN data = RequiredKeys \cup {"response"}

\* C8: a delivery waiting on an endpoint that never responds eventually
\* returns False.
SilentEndpointTimesOut ==
    \A d \in Deliveries :
        (deliv[d].pc = "await" /\ deliv[d].server = "silent")
            ~> (deliv[d].pc = "returned" /\ deliv[d].result = "False")

TimeoutFiredOnSilentEndpoint ==
    \E d \in Deliveries :
        /\ deliv[d].pc = "exit" /\ deliv[d].server = "silent"
        /\ deliv[d].pending = "TimeoutError"

\* C9: one wrapper call causes at most one network request; its delivery is
\* never both scheduled as a task and run inline; and when the fallback is
\* taken the first delivery has issued no request.
AtMostOneRequestPerCall ==
    \A w \in Calls :
        /\ Requests(w) <= 1
        /\ ~(wrap[w].scheduled /\ wrap[w].inline)
        /\ wrap[w].fallback =>
             /\ deliv[<<w, 1>>].requests = 0
             /\ ~wrap[w].scheduled

FallbackSentTheOnlyRequest ==
    \E w \in Calls :
        /\ wrap[w].fallback
        /\ deliv[<<w, 1>>].pc = "raised"
        /\ deliv[<<w, 2>>].requests = 1

\* C10: every open session is owned by exactly one delivery that is still
\* running, a delivery that has finished holds no session, and no session is
\* open once no delivery is running.
SessionsOwnedAndClosed ==
    /\ \A s \in openSessions :
         Cardinality({d \in Deliveries : deliv[d].session = s}) = 1
    /\ \A d \in Deliveries :
         /\ deliv[d].session # 0 =>
              deliv[d].session \in openSessions /\ deliv[d].pc \in {"await", "exit"}
         /\ deliv[d].pc \in {"await", "exit"} => deliv[d].session # 0
    /\ (\A d \in Deliveries : deliv[d].pc \notin RunningPcs) => openSessions = {}

SessionClosedWhileAnotherOpen ==
    \E d1, d2 \in Deliveries :
        /\ deliv[d1].pc = "returned" /\ deliv[d1].requests = 1
        /\ deliv[d2].pc = "await"
        /\ openSessions = {deliv[d2].session}

====
